---- MODULE Spec2Model ----
(***************************************************************************)
(* State-machine model of sd_parsers/parsers/_comfyui.py: ImageContext     *)
(* (construction of the node table and of the link adjacency, the          *)
(* generator-based backward traversal, sampler / model / prompt            *)
(* extraction, the metadata pass).                                         *)
(*                                                                         *)
(* Python values are modelled as records [kind, s, n]:                     *)
(*   kind "str"  : a string literal s                                      *)
(*   kind "num"  : a number n (int, float, bool: none is subscriptable)    *)
(*   kind "null" : None                                                    *)
(*   kind "inf"  : the float Infinity (json.loads accepts the literal)     *)
(*   kind "list" : a non-empty list whose element 0 is the int n           *)
(*   kind "list0": the empty list                                          *)
(*   kind "dict" : a mapping (no key of interest)                          *)
(* A dict is a function from its keys; an insertion-ordered dict that the  *)
(* code iterates is a sequence of items.                                   *)
(***************************************************************************)
EXTENDS Integers, Sequences, FiniteSets, TLC

\* ------------------------------------------------------------------ bounds
MaxNodes == 3      \* entries of the prompt document (node-rich inputs)
MaxLinks == 2      \* records of workflow["links"] (extraction inputs)
MaxDepth == 2      \* frames of traverse_inner the stack holds in deep graphs
MaxWalkLinks == 2  \* records of workflow["links"] (bare walks)
MaxWidth == 6      \* columns of the image an LSBExtractor reads
MaxHeight == 6     \* rows of the image an LSBExtractor reads
MaxBytes == 5      \* the n of get_next_n_bytes(n)

\* ------------------------------------------------------------------ values
Str(s) == [kind |-> "str", s |-> s, n |-> 0]
Num(n) == [kind |-> "num", s |-> "", n |-> n]
Link(j) == [kind |-> "list", s |-> "", n |-> j]
NullV == [kind |-> "null", s |-> "", n |-> 0]
InfV == [kind |-> "inf", s |-> "", n |-> 0]
EmptyListV == [kind |-> "list0", s |-> "", n |-> 0]
DictV == [kind |-> "dict", s |-> "", n |-> 0]

EmptyDict == [k \in {} |-> NullV]

\* module constants of _comfyui.py
SAMPLER_PARAMS == {"sampler_name", "steps", "cfg"}
POSITIVE_PROMPT_KEYS == <<"text", "positive">>
NEGATIVE_PROMPT_KEYS == <<"text", "negative">>
IGNORE_LINK_TYPES_PROMPT == <<"CLIP">>

\* decimal strings the inputs use, with the value int() gives them; int() of
\* any other string of the model raises ValueError
StrInt == ("1" :> 1) @@ ("2" :> 2) @@ ("3" :> 3) @@ ("4" :> 4) @@ ("5" :> 5)
            @@ ("01" :> 1) @@ ("02" :> 2)

\* first character of the non-empty strings the inputs use (s[0])
FirstChar == ("cat" :> "c") @@ (" cat " :> " ") @@ ("2x" :> "2") @@ ("1" :> "1")
            @@ ("2" :> "2") @@ ("3" :> "3") @@ ("Euler" :> "E")

\* str.strip() on the strings the inputs use
StripTable == (" cat " :> "cat") @@ ("dog " :> "dog") @@ ("  " :> "")
StrStrip(s) == IF s \in DOMAIN StripTable THEN StripTable[s] ELSE s

\* a result of an expression that may raise: err = "" when it returned val
Ok(v) == [err |-> "", val |-> v]
Raise(e) == [err |-> e, val |-> 0]

\* int(v)
PyInt(v) ==
  CASE v.kind = "num" -> Ok(v.n)
    [] v.kind = "str" -> IF v.s \in DOMAIN StrInt THEN Ok(StrInt[v.s]) ELSE Raise("ValueError")
    [] v.kind = "inf" -> Raise("OverflowError")
    [] OTHER -> Raise("TypeError")

\* int(v[0]), as in int(inputs["model"][0])
PyIntOfFirst(v) ==
  CASE v.kind = "list" -> Ok(v.n)
    [] v.kind = "list0" -> Raise("IndexError")
    [] v.kind = "str" ->
         IF v.s = "" THEN Raise("IndexError")
         ELSE PyInt(Str(IF v.s \in DOMAIN FirstChar THEN FirstChar[v.s] ELSE "?"))
    [] v.kind = "dict" -> Raise("KeyError")
    [] OTHER -> Raise("TypeError")

\* isinstance(value, list)
IsList(v) == v.kind \in {"list", "list0"}

\* ------------------------------------------------------------------ nodes
\* A node of the prompt document: a mapping with optional class_type and
\* inputs, or a value that is no mapping (null, a number, a string, a list:
\* node["inputs"] raises TypeError on each).  inputs is a mapping (idict),
\* or a value that is no mapping (ikind "other": None, a number, a string
\* or a list without the sampler keys; subscripting it by a string raises
\* TypeError, .items() raises AttributeError, set.issubset() of it is
\* False or raises TypeError).
DictNode(cls, inp) ==
  [isdict |-> TRUE, has_class |-> TRUE, class_type |-> cls,
   ikind |-> "dict", inputs |-> inp]
NoClassNode(inp) ==
  [isdict |-> TRUE, has_class |-> FALSE, class_type |-> "",
   ikind |-> "dict", inputs |-> inp]
NoInputsNode(cls) ==
  [isdict |-> TRUE, has_class |-> TRUE, class_type |-> cls,
   ikind |-> "absent", inputs |-> EmptyDict]
BadInputsNode(cls) ==
  [isdict |-> TRUE, has_class |-> TRUE, class_type |-> cls,
   ikind |-> "other", inputs |-> EmptyDict]
NonMappingNode ==
  [isdict |-> FALSE, has_class |-> FALSE, class_type |-> "",
   ikind |-> "absent", inputs |-> EmptyDict]

\* node["inputs"]
NodeInputs(node) ==
  IF ~node.isdict THEN Raise("TypeError")
  ELSE IF node.ikind = "absent" THEN Raise("KeyError")
  ELSE Ok(0)

\* inputs[key] for a key given as a string
InputsGet(node, key) ==
  IF node.ikind = "other" THEN Raise("TypeError")
  ELSE IF key \in DOMAIN node.inputs THEN Ok(0)
  ELSE Raise("KeyError")

\* {key: value for key, value in inputs.items() if not isinstance(value, list)}
Literals(inp) ==
  [k \in {x \in DOMAIN inp : ~IsList(inp[x])} |-> inp[k]]

\* ------------------------------------------------------- ImageContext.__init__
\* The prompt document: a JSON object, its items in document order (keys are
\* strings), or a value with no .items() (kind "other").
PromptDoc(items) == [kind |-> "dict", items |-> items]
NoDictDoc == [kind |-> "other", items |-> <<>>]
Item(key, node) == [key |-> key, node |-> node]

\* The workflow document: a mapping with or without the key links, or a value
\* that is no mapping (kind "other": workflow["links"] raises TypeError);
\* links is a list of records or a value that is not iterable ("other").
Workflow(recs) == [kind |-> "dict", has_links |-> TRUE, lkind |-> "list", links |-> recs]
WorkflowNoLinks == [kind |-> "dict", has_links |-> FALSE, lkind |-> "list", links |-> <<>>]
WorkflowBadLinks == [kind |-> "dict", has_links |-> TRUE, lkind |-> "other", links |-> <<>>]
WorkflowNoDict == [kind |-> "other", has_links |-> FALSE, lkind |-> "list", links |-> <<>>]

\* A record of workflow["links"]: a list of `arity` elements of which the
\* code reads elements 1 (output_id), 3 (input_id) and 5 (link_type), or a
\* value that cannot be unpacked (iterable FALSE).
LinkRec(out, inp, typ) ==
  [iterable |-> TRUE, arity |-> 6, output_id |-> out, input_id |-> inp, link_type |-> typ]
ShortRec(out, inp) ==
  [iterable |-> TRUE, arity |-> 5, output_id |-> out, input_id |-> inp, link_type |-> NullV]
ScalarRec ==
  [iterable |-> FALSE, arity |-> 0, output_id |-> NullV, input_id |-> NullV, link_type |-> NullV]

\* {int(k): v for k, v in prompt.items()}: the keys in order of first
\* occurrence, each with the value of its last occurrence
RECURSIVE CoerceKeys(_)
CoerceKeys(items) ==
  IF items = <<>> THEN Ok(<<>>)
  ELSE LET k == PyInt(Str(items[Len(items)].key))
           r == CoerceKeys(SubSeq(items, 1, Len(items) - 1))
       IN  IF r.err # "" THEN r
           ELSE IF k.err # "" THEN Raise(k.err)
           ELSE IF \E x \in 1..Len(r.val) : r.val[x] = k.val THEN r
           ELSE Ok(Append(r.val, k.val))

CoerceVal(items, id) ==
  LET last == CHOOSE x \in 1..Len(items) :
                /\ PyInt(Str(items[x].key)).val = id
                /\ \A y \in (x + 1)..Len(items) : PyInt(Str(items[y].key)).val # id
  IN  items[last].node

\* lines 66-69: self.prompt, or the exception the constructor raises
MakePrompt(doc) ==
  IF doc.kind # "dict" THEN [err |-> "ParserError", keys |-> <<>>, val |-> <<>>]
  ELSE LET r == CoerceKeys(doc.items)
       IN  IF r.err = "ValueError"
           THEN [err |-> "ParserError", keys |-> <<>>, val |-> <<>>]
           ELSE IF r.err # "" THEN [err |-> r.err, keys |-> <<>>, val |-> <<>>]
           ELSE [err |-> "",
                 keys |-> r.val,
                 val |-> [id \in {r.val[x] : x \in 1..Len(r.val)} |->
                            CoerceVal(doc.items, id)]]

\* the link type of a pair is overwritten, not added to a set
AddLinkOverwrites(l, c, p, t) ==
  LET inner == IF c \in DOMAIN l THEN l[c] ELSE <<>>
      new == IF \E x \in 1..Len(inner) : inner[x][1] = p
             THEN [x \in 1..Len(inner) |->
                     IF inner[x][1] = p THEN <<p, {t}>> ELSE inner[x]]
             ELSE Append(inner, <<p, {t}>>)
  IN  [k \in DOMAIN l \cup {c} |-> IF k = c THEN new ELSE l[k]]

\* self.links[c][p].add(t) on the defaultdict of defaultdicts of sets; an
\* inner dict is the sequence of its items <<producer, set of link types>>
AddLink(l, c, p, t) ==
  LET inner == IF c \in DOMAIN l THEN l[c] ELSE <<>>
      new == IF \E x \in 1..Len(inner) : inner[x][1] = p
             THEN [x \in 1..Len(inner) |->
                     IF inner[x][1] = p THEN <<p, inner[x][2] \cup {t}>> ELSE inner[x]]
             ELSE Append(inner, <<p, {t}>>)
  IN  [k \in DOMAIN l \cup {c} |-> IF k = c THEN new ELSE l[k]]

\* one iteration of the loop of lines 74-75: unpack the record, int(input_id),
\* int(output_id), hash link_type
LinkStep(l, rec) ==
  IF ~rec.iterable THEN [err |-> "TypeError", links |-> l]
  ELSE IF rec.arity # 6 THEN [err |-> "ValueError", links |-> l]
  ELSE LET c == PyInt(rec.input_id)
           p == PyInt(rec.output_id)
       IN  IF c.err # "" THEN [err |-> c.err, links |-> l]
           ELSE IF p.err # "" THEN [err |-> p.err, links |-> l]
           ELSE IF rec.link_type.kind \in {"list", "list0", "dict"}
                THEN [err |-> "TypeError", links |-> l]
           ELSE [err |-> "", links |-> AddLink(l, c.val, p.val, rec.link_type.s)]

RECURSIVE LinkLoop(_)
LinkLoop(recs) ==
  IF recs = <<>> THEN [err |-> "", links |-> <<>>]
  ELSE LET r == LinkLoop(SubSeq(recs, 1, Len(recs) - 1))
       IN  IF r.err # "" THEN r ELSE LinkStep(r.links, recs[Len(recs)])

\* the exceptions lines 76-77 turn into ParserError
LinksCaught(e) == e \in {"TypeError", "KeyError", "ValueError"}

\* lines 72-77: self.links, or the exception the constructor raises
MakeLinks(wf) ==
  LET r == IF wf.kind # "dict" THEN [err |-> "TypeError", links |-> <<>>]
           ELSE IF ~wf.has_links THEN [err |-> "KeyError", links |-> <<>>]
           ELSE IF wf.lkind # "list" THEN [err |-> "TypeError", links |-> <<>>]
           ELSE LinkLoop(wf.links)
  IN  IF r.err = "" THEN r
      ELSE IF LinksCaught(r.err) THEN [err |-> "ParserError", links |-> <<>>]
      ELSE [err |-> r.err, links |-> <<>>]

\* ------------------------------------------------------------------ state
VARIABLES
  prompt_doc,       \* parameters["prompt"], as handed to extract
  workflow_doc,     \* parameters["workflow"], as handed to extract
  pc,               \* position in extract: new, pass1, model, positive,
                    \*   negative, pass2, done, raised (ready, walk: a bare walk)
  error,            \* the exception that left extract ("" : none)
  prompt,           \* context.prompt: [keys: order of the dict, val: id -> node]
  links,            \* context.links: consumer id -> items <<producer id, types>>
  processed_nodes,  \* context.processed_nodes
  samplers,         \* extract's local list
  metadata,         \* extract's local dict: <<class_type, id>> -> literal inputs
  i,                \* position of the loop of pass 1 / pass 2 in prompt.keys
  sampler,          \* the Sampler _try_get_sampler is filling
  wpc,              \* position of the generator: begin, enter, yield, loop, done
  node_id,          \* the id traverse_inner is entered with / has yielded
  visited,          \* _traverse's visited
  ignore_links,     \* _traverse's ignore_links
  stack,            \* the frames of traverse_inner: [node_id, started, todo]
  prompts,          \* _get_prompts' local list
  entered,          \* history: the entries of traverse_inner of this walk
  yielded,          \* history: the node ids this walk has yielded
  run,              \* 1 or 2: which call of extract on the same parameters
  first_result,     \* what the first call returned or raised
  recursion_limit,  \* the frames of traverse_inner the interpreter's stack holds
  overflowed,       \* history: a walk has raised RecursionError
  extractor,        \* an LSBExtractor: data, width, height, dim, bits, byte, row, col
  reader            \* the call on the extractor under way: its position and locals

vars == <<prompt_doc, workflow_doc, pc, error, prompt, links, processed_nodes,
          samplers, metadata, i, sampler, wpc, node_id, visited, ignore_links,
          stack, prompts, entered, yielded, run, first_result, recursion_limit,
          overflowed, extractor, reader>>

walkvars == <<wpc, node_id, visited, ignore_links, stack, entered, yielded>>
docvars == <<prompt_doc, workflow_doc, run, first_result, recursion_limit, overflowed,
            extractor, reader>>

\* the state of a call of extract, which no read of an LSBExtractor changes
comfyvars == <<prompt_doc, workflow_doc, pc, error, prompt, links, processed_nodes,
              samplers, metadata, i, sampler, wpc, node_id, visited, ignore_links,
              stack, prompts, entered, yielded, run, first_result, recursion_limit,
              overflowed>>

\* ----------------------------------------------------------------- records
\* no LSBExtractor has been made, no call on one is under way
NoExtractor ==
  [data |-> "", width |-> 0, height |-> 0, dim |-> 4, bits |-> 0, byte |-> 0,
   row |-> 0, col |-> 0]

NoReader ==
  [pc |-> "idle", op |-> "", n |-> 0, k |-> 0, bytes_list |-> <<>>, unread |-> 0,
   ret |-> <<>>, none |-> FALSE]

NoModel ==
  [present |-> FALSE, model_id |-> 0, name |-> NullV,
   has_config |-> FALSE, config_name |-> NullV]

\* Sampler(sampler_id=, name=, parameters=): model absent, no prompts
NewSampler(id, name, params) ==
  [sampler_id |-> id, name |-> name, parameters |-> params, model |-> NoModel,
   prompts |-> <<>>, negative_prompts |-> <<>>]

NoSampler == NewSampler(0, NullV, EmptyDict)

EmptyPrompt == [keys |-> <<>>, val |-> <<>>]

\* what a call of extract gave its caller
Result ==
  IF pc = "done"
  THEN [returned |-> TRUE, error |-> "", samplers |-> samplers, metadata |-> metadata]
  ELSE [returned |-> FALSE, error |-> error, samplers |-> <<>>, metadata |-> <<>>]

NoResult == [returned |-> FALSE, error |-> "", samplers |-> <<>>, metadata |-> <<>>]

Range(s) == {s[x] : x \in 1..Len(s)}

\* ------------------------------------------------------------------ extract
\* the list of the call before is kept
StaleSamplers == samplers

\* line 85: samplers = []
FreshSamplers == <<>>

\* the sampler is put in front of the list
PrependSampler(ss, sm) == <<sm>> \o ss

\* line 92: samplers.append(sampler)
AppendSampler(ss, sm) == Append(ss, sm)

\* the id is not recorded
ForgetProcessed(id) == processed_nodes

\* the set is assigned the id, not added to
ReplaceProcessed(id) == {id}

\* lines 157, 188, 209: self.processed_nodes.add(node_id)
AddProcessed(id) == processed_nodes \cup {id}

\* lines 84-86: context = cls(parser, prompt, links); samplers = []; metadata = {}
Construct ==
  /\ pc = "new"
  /\ LET p == MakePrompt(prompt_doc)
         l == IF p.err = "" THEN MakeLinks(workflow_doc) ELSE [err |-> p.err, links |-> <<>>]
     IN  IF l.err # ""
         THEN /\ pc' = "raised"
              /\ error' = l.err
              /\ UNCHANGED <<prompt, links>>
         ELSE /\ pc' = "pass1"
              /\ error' = ""
              /\ prompt' = [keys |-> p.keys, val |-> p.val]
              /\ links' = l.links
  /\ processed_nodes' = {}
  /\ samplers' = FreshSamplers
  /\ metadata' = <<>>
  /\ i' = 1
  /\ UNCHANGED <<sampler, prompts>>
  /\ UNCHANGED walkvars
  /\ UNCHANGED docvars

\* lines 202-206: SAMPLER_PARAMS.issubset(node["inputs"]), None on KeyError, TypeError
IsSamplerNode(node) ==
  /\ NodeInputs(node).err = ""
  /\ node.ikind = "dict"
  /\ SAMPLER_PARAMS \subseteq DOMAIN node.inputs

\* lines 211-217: the inputs without sampler_name, those that are no list
SamplerParameters(inp) ==
  Literals([k \in DOMAIN inp \ {"sampler_name"} |-> inp[k]])

\* int(inputs[key][0]) of lines 228, 233, 238
LinkRef(inp, key) ==
  IF key \in DOMAIN inp THEN PyIntOfFirst(inp[key]) ELSE Raise("KeyError")

\* with suppress(KeyError, ValueError) of lines 227, 232, 237
RefSuppressed(e) == e \in {"KeyError", "ValueError"}

\* lines 89-92 and 200-224: the loop of pass 1 takes the next node
TryGetSampler ==
  /\ pc = "pass1"
  /\ i <= Len(prompt.keys)
  /\ LET id == prompt.keys[i]
         node == prompt.val[id]
     IN  IF ~IsSamplerNode(node)
         THEN /\ i' = i + 1
              /\ UNCHANGED <<pc, processed_nodes, sampler, wpc>>
         ELSE /\ processed_nodes' = AddProcessed(id)
              /\ sampler' = NewSampler(id, node.inputs["sampler_name"],
                                       SamplerParameters(node.inputs))
              /\ pc' = "model"
              /\ wpc' = "begin"
              /\ UNCHANGED i
  /\ UNCHANGED <<error, prompt, links, samplers, metadata, prompts>>
  /\ UNCHANGED <<node_id, visited, ignore_links, stack, entered, yielded>>
  /\ UNCHANGED docvars

\* visited is the set of the walk before: shared by the calls
StartTraverseSharedVisited(start, ignored) ==
  /\ wpc' = "enter"
  /\ node_id' = start
  /\ visited' = visited
  /\ ignore_links' = Range(ignored)
  /\ stack' = <<>>
  /\ entered' = <<>>
  /\ yielded' = <<>>

\* lines 114-115 and 135: a call of _traverse and the first next() on it
StartTraverse(start, ignored) ==
  /\ wpc' = "enter"
  /\ node_id' = start
  /\ visited' = {}
  /\ ignore_links' = Range(ignored)
  /\ stack' = <<>>
  /\ entered' = <<>>
  /\ yielded' = <<>>

\* lines 227-239: one of the three blocks of _try_get_sampler resolves its
\* link reference and starts its walk, or is skipped, or raises
Resolve(phase, key, ignored, next) ==
  /\ pc = phase
  /\ wpc = "begin"
  /\ LET r == LinkRef(prompt.val[sampler.sampler_id].inputs, key)
     IN  IF r.err = ""
         THEN /\ StartTraverse(r.val, ignored)
              /\ UNCHANGED <<pc, error>>
         ELSE IF RefSuppressed(r.err)
         THEN /\ pc' = next
              /\ entered' = <<>>
              /\ yielded' = <<>>
              /\ UNCHANGED <<error, wpc, node_id, visited, ignore_links, stack>>
         ELSE /\ pc' = "raised"
              /\ error' = r.err
              /\ UNCHANGED <<wpc, node_id, visited, ignore_links, stack,
                             entered, yielded>>
  /\ prompts' = <<>>
  /\ UNCHANGED <<prompt, links, processed_nodes, samplers, metadata, i, sampler>>
  /\ UNCHANGED docvars

ResolveModel == Resolve("model", "model", <<>>, "positive")
ResolvePositive == Resolve("positive", "positive", IGNORE_LINK_TYPES_PROMPT, "negative")
ResolveNegative == Resolve("negative", "negative", IGNORE_LINK_TYPES_PROMPT, "return")

\* ---------------------------------------------------------------- _traverse
Walking == pc \in {"model", "positive", "negative", "walk"}

Top == stack[Len(stack)]

\* self.links[c][p] as the walk reads it
TypesOf(l, c, p) ==
  IF c \in DOMAIN l /\ \E x \in 1..Len(l[c]) : l[c][x][1] = p
  THEN l[c][CHOOSE x \in 1..Len(l[c]) : l[c][x][1] = p][2]
  ELSE {}

\* the frame of traverse_inner returns to the frame that called it
PopFrame ==
  /\ stack' = SubSeq(stack, 1, Len(stack) - 1)
  /\ wpc' = IF Len(stack) = 1 THEN "done" ELSE "loop"

\* the id is yielded whether or not the table holds it
WalkEnterAlwaysYields ==
  /\ Walking
  /\ wpc = "enter"
  /\ visited' = visited \cup {node_id}
  /\ stack' = Append(stack, [node_id |-> node_id, started |-> FALSE, todo |-> <<>>])
  /\ entered' = Append(entered,
                  [node_id |-> node_id,
                   from |-> IF stack = <<>> THEN 0 ELSE Top.node_id,
                   types |-> IF stack = <<>> THEN {}
                             ELSE TypesOf(links, Top.node_id, node_id)])
  /\ wpc' = "yield"
  /\ yielded' = Append(yielded, node_id)
  /\ UNCHANGED <<node_id, ignore_links>>
  /\ UNCHANGED <<pc, error, prompt, links, processed_nodes, samplers, metadata,
                 i, sampler, prompts>>
  /\ UNCHANGED docvars

\* lines 120-123: traverse_inner is entered with node_id: it marks the id
\* visited and yields it with its node; self.prompt[node_id] raising
\* KeyError skips the yield
WalkEnter ==
  /\ Walking
  /\ wpc = "enter"
  /\ visited' = visited \cup {node_id}
  /\ stack' = Append(stack, [node_id |-> node_id, started |-> FALSE, todo |-> <<>>])
  /\ entered' = Append(entered,
                  [node_id |-> node_id,
                   from |-> IF stack = <<>> THEN 0 ELSE Top.node_id,
                   types |-> IF stack = <<>> THEN {}
                             ELSE TypesOf(links, Top.node_id, node_id)])
  /\ IF node_id \in DOMAIN prompt.val
     THEN /\ wpc' = "yield"
          /\ yielded' = Append(yielded, node_id)
     ELSE /\ wpc' = "loop"
          /\ UNCHANGED yielded
  /\ UNCHANGED <<node_id, ignore_links>>
  /\ UNCHANGED <<pc, error, prompt, links, processed_nodes, samplers, metadata,
                 i, sampler, prompts>>
  /\ UNCHANGED docvars

\* the producer is followed whether or not it was visited
FollowsUnvisitedOrNot(link_id, link_types) ==
  link_types \ ignore_links # {}

\* the producer is followed whatever the types of the link
FollowsAnyType(link_id, link_types) ==
  link_id \notin visited

\* line 129: the producer is followed
Follows(link_id, link_types) ==
  /\ link_id \notin visited
  /\ link_types \ ignore_links # {}

\* with suppress(KeyError) only
LoopSuppressedKeyError(e) == e \in {"KeyError"}

\* with suppress(KeyError, RecursionError) of line 127
LoopSuppressed(e) == e \in {"KeyError", "RecursionError"}

\* lines 127-133: the for loop over self.links[node_id].items() takes its next
\* item, or ends and the frame returns; reading self.links[node_id] makes the
\* defaultdict hold the key.  Entering a producer when the stack holds no
\* further frame raises RecursionError inside the with block: suppressed, it
\* ends the loop and the frame returns
WalkLoop ==
  /\ Walking
  /\ wpc = "loop"
  /\ LET n == Top.node_id
         items == IF Top.started THEN Top.todo
                  ELSE IF n \in DOMAIN links THEN links[n] ELSE <<>>
     IN  /\ links' = IF n \in DOMAIN links THEN links
                     ELSE [k \in DOMAIN links \cup {n} |->
                             IF k = n THEN <<>> ELSE links[k]]
         /\ IF items = <<>>
            THEN /\ PopFrame
                 /\ UNCHANGED <<node_id, pc, error, overflowed>>
            ELSE IF ~Follows(items[1][1], items[1][2])
            THEN /\ stack' = [stack EXCEPT ![Len(stack)] =
                                [node_id |-> n, started |-> TRUE, todo |-> Tail(items)]]
                 /\ wpc' = "loop"
                 /\ UNCHANGED <<node_id, pc, error, overflowed>>
            ELSE IF Len(stack) < recursion_limit
            THEN /\ stack' = [stack EXCEPT ![Len(stack)] =
                                [node_id |-> n, started |-> TRUE, todo |-> Tail(items)]]
                 /\ wpc' = "enter"
                 /\ node_id' = items[1][1]
                 /\ UNCHANGED <<pc, error, overflowed>>
            ELSE IF LoopSuppressed("RecursionError")
            THEN /\ PopFrame
                 /\ overflowed' = TRUE
                 /\ UNCHANGED <<node_id, pc, error>>
            ELSE /\ pc' = "raised"
                 /\ error' = "RecursionError"
                 /\ overflowed' = TRUE
                 /\ UNCHANGED <<node_id, wpc, stack>>
  /\ UNCHANGED <<visited, ignore_links, entered, yielded>>
  /\ UNCHANGED <<prompt, processed_nodes, samplers, metadata, i, sampler, prompts>>
  /\ UNCHANGED <<prompt_doc, workflow_doc, run, first_result, recursion_limit,
                 extractor, reader>>

\* the value sent is not looked at: the frame always goes on to its links
ResumeAlways(recurse) ==
  /\ wpc' = "loop"
  /\ UNCHANGED stack

\* lines 123-125: the generator is resumed with the value sent to it
\* (next() sends None); recurse is False returns from the frame
Resume(recurse) ==
  IF recurse = "False"
  THEN PopFrame
  ELSE /\ wpc' = "loop"
       /\ UNCHANGED stack

\* --------------------------------------------------------------- _get_model
\* lines 191-194: Model(model_id=node_id, name=ckpt_name), with config_name
\* when the inputs hold it
FoundModel(id, inp) ==
  [present |-> TRUE, model_id |-> id, name |-> inp["ckpt_name"],
   has_config |-> "config_name" \in DOMAIN inp,
   config_name |-> IF "config_name" \in DOMAIN inp THEN inp["config_name"] ELSE NullV]

\* the key looked up is config_name
ConfigLookup(node) ==
  IF NodeInputs(node).err # "" THEN NodeInputs(node).err
  ELSE InputsGet(node, "config_name").err

\* lines 182-186: node["inputs"]["ckpt_name"]: "" when it is there, KeyError
\* (caught) or the exception that escapes
CkptLookup(node) ==
  IF NodeInputs(node).err # "" THEN NodeInputs(node).err
  ELSE InputsGet(node, "ckpt_name").err

\* lines 181-196: the for loop of _get_model takes the node the walk yielded
GetModelVisit ==
  /\ pc = "model"
  /\ wpc = "yield"
  /\ LET node == prompt.val[node_id]
         e == CkptLookup(node)
     IN  IF e = ""
         THEN /\ processed_nodes' = AddProcessed(node_id)
              /\ sampler' = [sampler EXCEPT !.model = FoundModel(node_id, node.inputs)]
              /\ pc' = "positive"
              /\ wpc' = "begin"
              /\ UNCHANGED <<error, stack>>
         ELSE IF e = "KeyError"
         THEN /\ Resume("None")
              /\ UNCHANGED <<pc, error, processed_nodes, sampler>>
         ELSE /\ pc' = "raised"
              /\ error' = e
              /\ UNCHANGED <<wpc, stack, processed_nodes, sampler>>
  /\ UNCHANGED <<node_id, visited, ignore_links, entered, yielded>>
  /\ UNCHANGED <<prompt, links, samplers, metadata, i, prompts>>
  /\ UNCHANGED docvars

\* line 198: the walk is exhausted, _get_model returns None
GetModelNone ==
  /\ pc = "model"
  /\ wpc = "done"
  /\ sampler' = [sampler EXCEPT !.model = NoModel]
  /\ pc' = "positive"
  /\ wpc' = "begin"
  /\ UNCHANGED <<node_id, visited, ignore_links, stack, entered, yielded>>
  /\ UNCHANGED <<error, prompt, links, processed_nodes, samplers, metadata, i,
                 prompts>>
  /\ UNCHANGED docvars

\* -------------------------------------------------------------- _get_prompts
\* the loop over text_keys ends at the first prompt it finds
RECURSIVE CheckInputsFirstKey(_, _, _)
CheckInputsFirstKey(id, inp, text_keys) ==
  IF text_keys = <<>> THEN <<>>
  ELSE IF Head(text_keys) \in DOMAIN inp /\ inp[Head(text_keys)].kind = "str"
  THEN <<[value |-> StrStrip(inp[Head(text_keys)].s), prompt_id |-> id]>>
  ELSE CheckInputsFirstKey(id, inp, Tail(text_keys))

\* lines 145-154: the prompts check_inputs appends for one node, in the order
\* of text_keys: one for each key whose value is a str, stripped
RECURSIVE CheckInputs(_, _, _)
CheckInputs(id, inp, text_keys) ==
  IF text_keys = <<>> THEN <<>>
  ELSE LET key == Head(text_keys)
           rest == CheckInputs(id, inp, Tail(text_keys))
       IN  IF key \in DOMAIN inp /\ inp[key].kind = "str"
           THEN <<[value |-> StrStrip(inp[key].s), prompt_id |-> id]>> \o rest
           ELSE rest

TextKeys == IF pc = "positive" THEN POSITIVE_PROMPT_KEYS ELSE NEGATIVE_PROMPT_KEYS

\* lines 164-173 with check_inputs: the loop of _get_prompts takes the node the
\* walk yielded and sends the walk whether to go on
GetPromptsVisit ==
  /\ pc \in {"positive", "negative"}
  /\ wpc = "yield"
  /\ LET node == prompt.val[node_id]
         e == NodeInputs(node).err
     IN  IF e = "KeyError"
         THEN /\ Resume("True")
              /\ UNCHANGED <<pc, error, processed_nodes, prompts>>
         ELSE IF e # "" \/ node.ikind = "other"
         THEN /\ pc' = "raised"
              /\ error' = "TypeError"
              /\ UNCHANGED <<wpc, stack, processed_nodes, prompts>>
         ELSE LET found == CheckInputs(node_id, node.inputs, TextKeys)
              IN  /\ prompts' = prompts \o found
                  /\ IF found # <<>>
                     THEN /\ processed_nodes' = AddProcessed(node_id)
                          /\ Resume("False")
                     ELSE /\ Resume("True")
                          /\ UNCHANGED processed_nodes
                  /\ UNCHANGED <<pc, error>>
  /\ UNCHANGED <<node_id, visited, ignore_links, entered, yielded>>
  /\ UNCHANGED <<prompt, links, samplers, metadata, i, sampler>>
  /\ UNCHANGED docvars

\* line 175 and lines 234, 239: _get_prompts returns its list
GetPromptsReturn ==
  /\ pc \in {"positive", "negative"}
  /\ wpc = "done"
  /\ IF pc = "positive"
     THEN /\ sampler' = [sampler EXCEPT !.prompts = prompts]
          /\ pc' = "negative"
     ELSE /\ sampler' = [sampler EXCEPT !.negative_prompts = prompts]
          /\ pc' = "return"
  /\ wpc' = "begin"
  /\ UNCHANGED <<node_id, visited, ignore_links, stack, entered, yielded>>
  /\ UNCHANGED <<error, prompt, links, processed_nodes, samplers, metadata, i,
                 prompts>>
  /\ UNCHANGED docvars

\* line 241 and lines 91-92: _try_get_sampler returns the sampler, pass 1
\* appends it and goes on
ReturnSampler ==
  /\ pc = "return"
  /\ samplers' = AppendSampler(samplers, sampler)
  /\ i' = i + 1
  /\ pc' = "pass1"
  /\ UNCHANGED <<error, prompt, links, processed_nodes, metadata, sampler,
                 prompts>>
  /\ UNCHANGED walkvars
  /\ UNCHANGED docvars

\* ------------------------------------------------------------------- pass 2
\* line 95: pass 1 has taken every node, pass 2 starts
StartPass2 ==
  /\ pc = "pass1"
  /\ i > Len(prompt.keys)
  /\ pc' = "pass2"
  /\ i' = 1
  /\ UNCHANGED <<error, prompt, links, processed_nodes, samplers, metadata,
                 sampler, prompts>>
  /\ UNCHANGED walkvars
  /\ UNCHANGED docvars

\* with suppress(KeyError, AttributeError) of line 99
MetaSuppressed(e) == e \in {"KeyError", "AttributeError"}

\* the inputs are stored with their link references
MetadataWithLinks(md, id, node) ==
  IF ~node.isdict THEN [err |-> "TypeError", md |-> md]
  ELSE IF node.ikind = "absent" THEN [err |-> "KeyError", md |-> md]
  ELSE IF node.ikind = "other" THEN [err |-> "AttributeError", md |-> md]
  ELSE IF DOMAIN node.inputs = {} THEN [err |-> "", md |-> md]
  ELSE IF ~node.has_class THEN [err |-> "KeyError", md |-> md]
  ELSE [err |-> "",
        md |-> [k \in DOMAIN md \cup {<<node.class_type, id>>} |->
                  IF k = <<node.class_type, id>> THEN node.inputs ELSE md[k]]]

\* lines 100-106 for one node: "" and the dict after the store, or the
\* exception the block raised
MetadataOf(md, id, node) ==
  IF ~node.isdict THEN [err |-> "TypeError", md |-> md]
  ELSE IF node.ikind = "absent" THEN [err |-> "KeyError", md |-> md]
  ELSE IF node.ikind = "other" THEN [err |-> "AttributeError", md |-> md]
  ELSE LET inputs == Literals(node.inputs)
       IN  IF DOMAIN inputs = {} THEN [err |-> "", md |-> md]
           ELSE IF ~node.has_class THEN [err |-> "KeyError", md |-> md]
           ELSE [err |-> "",
                 md |-> [k \in DOMAIN md \cup {<<node.class_type, id>>} |->
                           IF k = <<node.class_type, id>> THEN inputs ELSE md[k]]]

\* lines 95-106: the loop of pass 2 takes the next node
CollectMetadata ==
  /\ pc = "pass2"
  /\ i <= Len(prompt.keys)
  /\ LET id == prompt.keys[i]
         r == MetadataOf(metadata, id, prompt.val[id])
     IN  IF id \in processed_nodes \/ MetaSuppressed(r.err)
         THEN /\ i' = i + 1
              /\ UNCHANGED <<pc, error, metadata>>
         ELSE IF r.err # ""
         THEN /\ pc' = "raised"
              /\ error' = r.err
              /\ UNCHANGED <<i, metadata>>
         ELSE /\ metadata' = r.md
              /\ i' = i + 1
              /\ UNCHANGED <<pc, error>>
  /\ UNCHANGED <<prompt, links, processed_nodes, samplers, sampler, prompts>>
  /\ UNCHANGED walkvars
  /\ UNCHANGED docvars

\* line 108: return samplers, metadata
Return ==
  /\ pc = "pass2"
  /\ i > Len(prompt.keys)
  /\ pc' = "done"
  /\ UNCHANGED <<error, prompt, links, processed_nodes, samplers, metadata, i,
                 sampler, prompts>>
  /\ UNCHANGED walkvars
  /\ UNCHANGED docvars

\* ------------------------------------------------------------------ inputs
LinkTypes == {"CLIP", "CONDITIONING"}
\* the node ids link records and walk starts are drawn from: those of the
\* tables below, one of which (3) the tables of the bare walks do not hold
Ids == {1, 2, 3}

\* the well-formed records of workflow["links"] over the ids and link types
GoodRecs == {LinkRec(Num(p), Num(c), Str(t)) : p \in Ids, c \in Ids, t \in LinkTypes}

SeqsUpTo(S, n) == UNION {[1..m -> S] : m \in 0..n}

\* inputs of nodes
SamplerBase ==
  ("sampler_name" :> Str("Euler")) @@ ("steps" :> Num(20)) @@ ("cfg" :> Num(7))

With(inp, key, v) == IF v.kind = "absent" THEN inp ELSE (key :> v) @@ inp
Absent == [kind |-> "absent", s |-> "", n |-> 0]

\* what a sampler node's model / positive / negative input is: absent, a link
\* reference, a literal string (not a number, the number 2 first, empty), a
\* literal number, an empty list
RefValues ==
  {Absent, Link(2), Link(3), Str("cat"), Str("2x"), Str(""), Num(5), EmptyListV}

SamplerNode(m, p, n) ==
  DictNode("KSampler",
           With(With(With(SamplerBase, "model", m), "positive", p), "negative", n))

Loader ==
  DictNode("CheckpointLoader",
           ("ckpt_name" :> Str("modelA")) @@ ("config_name" :> Str("v1.yaml")))
TextNode == DictNode("CLIPTextEncode", ("text" :> Str(" cat ")) @@ ("clip" :> Link(2)))
BothNode == DictNode("Both", ("positive" :> Str("dog ")) @@ ("negative" :> Str("cat")))
Reroute == DictNode("Reroute", ("x" :> Link(3)))
Note == DictNode("Note", ("foo" :> Str("bar")))
AllInOne ==
  DictNode("AllInOne", ("ckpt_name" :> Str("modelA")) @@ ("text" :> Str(" cat ")))
TextSampler ==
  DictNode("TextSampler",
           SamplerBase @@ ("text" :> Str("dog ")) @@ ("model" :> Link(3))
             @@ ("positive" :> Link(2)))

\* node-rich inputs: every table of MaxNodes nodes of the catalog, under three
\* key orders (ascending, rotated, the last key colliding with the first)
Catalog ==
  {SamplerNode(Link(2), Link(3), Link(3)), TextSampler, Loader, TextNode, BothNode,
   Reroute, Note}

DecStr == <<"1", "2", "3", "4", "5">>
KeyOrders ==
  {[x \in 1..MaxNodes |-> DecStr[x]],
   [x \in 1..MaxNodes |-> DecStr[IF x = 1 THEN MaxNodes ELSE x - 1]],
   [x \in 1..MaxNodes |-> IF x = MaxNodes THEN "01" ELSE DecStr[x]]}

FewLinks ==
  {<<LinkRec(Num(3), Num(2), Str("CONDITIONING")), LinkRec(Num(2), Num(3), Str("CLIP"))>>}

NodeRichInputs ==
  {<<PromptDoc([x \in 1..MaxNodes |-> Item(ks[x], ns[x])]), Workflow(ls)>> :
     ks \in KeyOrders, ns \in [1..MaxNodes -> Catalog], ls \in FewLinks}

\* odd-shape inputs: a sampler whose walks start at nodes 2 and 3, each of them
\* a node without class_type, without inputs, with inputs that are no
\* mapping, a node that is no mapping, or a plain one
OddNodes ==
  {NoClassNode(("foo" :> Str("bar"))), NoClassNode(("ckpt_name" :> Str("modelA"))),
   NoInputsNode("Empty"), BadInputsNode("Bad"), NonMappingNode,
   DictNode("Empty", EmptyDict), Reroute, Note}

OddShapeInputs ==
  {<<PromptDoc(<<Item("1", SamplerNode(Link(2), p, Link(3))), Item("2", n2),
                 Item("3", n3)>>),
     Workflow(ls)>> :
     p \in {Link(2), Link(3), Absent}, n2 \in OddNodes, n3 \in OddNodes, ls \in FewLinks}

\* sampler-rich inputs: every sampler node over RefValues, beside a node that
\* holds a model and a prompt and one that only passes on
SamplerRichInputs ==
  {<<PromptDoc(<<Item("1", SamplerNode(m, p, n)), Item("2", AllInOne),
                 Item("3", Reroute)>>),
     Workflow(<<LinkRec(Num(2), Num(3), Str("CONDITIONING"))>>)>> :
     m \in RefValues, p \in RefValues, n \in RefValues}

\* graph-rich inputs: every list of at most MaxLinks well-formed records, under
\* a table whose sampler starts its walks at an id the table does not hold (2)
GraphTables ==
  {<<Item("3", AllInOne), Item("1", SamplerNode(Link(2), Link(2), Link(2)))>>}

GraphRichInputs ==
  {<<PromptDoc(t), Workflow(ls)>> : t \in GraphTables, ls \in SeqsUpTo(GoodRecs, MaxLinks)}

\* malformed inputs: a prompt that is no mapping or has a key int() refuses; a
\* workflow that is no mapping, has no links, has links that cannot be
\* iterated, or holds a record of the wrong arity, one that cannot be unpacked,
\* ids int() refuses, or a link type that cannot be hashed
BadRecs ==
  {ShortRec(Num(1), Num(2)), ScalarRec,
   LinkRec(Str("x"), Num(1), Str("CLIP")), LinkRec(Num(1), Str("x"), Str("CLIP")),
   LinkRec(NullV, Num(1), Str("CLIP")), LinkRec(Num(1), NullV, Str("CLIP")),
   LinkRec(InfV, Num(1), Str("CLIP")), LinkRec(Num(1), InfV, Str("CLIP")),
   LinkRec(InfV, Str("x"), Str("CLIP")), LinkRec(Str("x"), InfV, Str("CLIP")),
   LinkRec(Str("2"), Str("01"), Str("CLIP")),
   LinkRec(Num(1), Num(2), EmptyListV)}

SomeGoodRecs ==
  {LinkRec(Num(1), Num(2), Str("CLIP")), LinkRec(Num(2), Num(1), Str("CONDITIONING"))}

GoodTable == <<Item("1", Note), Item("2", SamplerNode(Link(1), Absent, Absent))>>

BadPromptDocs ==
  {NoDictDoc,
   PromptDoc(<<Item("x", Note)>>),
   PromptDoc(<<Item("1", Note), Item("1.5", Note)>>),
   PromptDoc(<<Item("", Loader), Item("2", Note)>>)}

BadWorkflows ==
  {WorkflowNoDict, WorkflowNoLinks, WorkflowBadLinks}
    \cup {Workflow(ls) : ls \in SeqsUpTo(BadRecs \cup SomeGoodRecs, MaxLinks)}

MalformedInputs ==
  {<<p, w>> : p \in BadPromptDocs, w \in BadWorkflows \cup {Workflow(<<>>)}}
    \cup {<<PromptDoc(GoodTable), w>> : w \in BadWorkflows}

\* the two scenarios of the specification: a sampler with its model and its
\* prompts one link away, and an isolated note
ScenarioInputs ==
  {<<PromptDoc(<<Item("1", SamplerNode(Link(2), Link(3), Link(4))),
                 Item("2", DictNode("CheckpointLoader", ("ckpt_name" :> Str("modelA")))),
                 Item("3", DictNode("Text", ("text" :> Str("cat")))),
                 Item("4", DictNode("Text", ("text" :> Str("dog"))))>>),
     Workflow(<<LinkRec(Num(2), Num(1), Str("MODEL")),
                LinkRec(Num(3), Num(1), Str("CONDITIONING")),
                LinkRec(Num(4), Num(1), Str("CONDITIONING"))>>)>>,
   <<PromptDoc(<<Item("1", SamplerNode(Link(2), Absent, Absent)),
                 Item("2", DictNode("CheckpointLoader", ("ckpt_name" :> Str("modelA")))),
                 Item("5", Note)>>),
     Workflow(<<LinkRec(Num(2), Num(1), Str("MODEL"))>>)>>}

\* prompt-rich inputs: a sampler whose three walks start at a node that only
\* passes on (2), with a producer that holds one text (4), a producer that
\* holds a text under every prompt key (3), and a text node (5) behind it that
\* is or is not a producer of node 2 as well
PromptRichInputs ==
  {<<PromptDoc(<<Item("1", SamplerNode(Link(2), Link(2), Link(2))),
                 Item("2", DictNode("Switch", ("x" :> Link(4)))),
                 Item("3", DictNode("Both", ("text" :> Str(" cat ")) @@ ("positive" :> Str("dog "))
                                              @@ ("negative" :> Str("cat")))),
                 Item("4", DictNode("Text", ("text" :> Str("dog ")))),
                 Item("5", DictNode("Text", ("text" :> Str("cat"))))>>),
     Workflow(<<LinkRec(Num(4), Num(2), Str("CONDITIONING")),
                LinkRec(Num(3), Num(2), Str("CONDITIONING")),
                LinkRec(Num(5), Num(3), Str("CONDITIONING"))>> \o more)>> :
     more \in {<<>>, <<LinkRec(Num(5), Num(2), Str("CONDITIONING"))>>}}

ExtractInputs ==
  NodeRichInputs \cup OddShapeInputs \cup SamplerRichInputs \cup GraphRichInputs
    \cup MalformedInputs \cup ScenarioInputs \cup PromptRichInputs

\* the frames of traverse_inner that fit the interpreter's stack when nothing
\* is set: far more than a walk within the bounds needs
RecursionLimit == 1000

\* the state in which parse() calls extract on the pair of documents
InitWith(docs, limit) ==
  /\ prompt_doc = docs[1]
  /\ workflow_doc = docs[2]
  /\ pc = "new"
  /\ error = ""
  /\ prompt = EmptyPrompt
  /\ links = <<>>
  /\ processed_nodes = {}
  /\ samplers = <<>>
  /\ metadata = <<>>
  /\ i = 1
  /\ sampler = NoSampler
  /\ wpc = "begin"
  /\ node_id = 0
  /\ visited = {}
  /\ ignore_links = {}
  /\ stack = <<>>
  /\ prompts = <<>>
  /\ entered = <<>>
  /\ yielded = <<>>
  /\ run = 1
  /\ first_result = NoResult
  /\ recursion_limit = limit
  /\ overflowed = FALSE
  /\ extractor = NoExtractor
  /\ reader = NoReader

Init == \E docs \in ExtractInputs : InitWith(docs, RecursionLimit)

Next ==
  \/ Construct
  \/ TryGetSampler
  \/ ResolveModel
  \/ ResolvePositive
  \/ ResolveNegative
  \/ WalkEnter
  \/ WalkLoop
  \/ GetModelVisit
  \/ GetModelNone
  \/ GetPromptsVisit
  \/ GetPromptsReturn
  \/ ReturnSampler
  \/ StartPass2
  \/ CollectMetadata
  \/ Return

Spec == Init /\ [][Next]_vars

\* parse() is called once more on the same parameters: a second call of
\* extract, with a context of its own
Reparse ==
  /\ pc \in {"done", "raised"}
  /\ run = 1
  /\ run' = 2
  /\ first_result' = Result
  /\ pc' = "new"
  /\ error' = ""
  /\ prompt' = EmptyPrompt
  /\ links' = <<>>
  /\ sampler' = NoSampler
  /\ prompts' = <<>>
  /\ wpc' = "begin"
  /\ node_id' = 0
  /\ visited' = {}
  /\ ignore_links' = {}
  /\ stack' = <<>>
  /\ entered' = <<>>
  /\ yielded' = <<>>
  /\ UNCHANGED <<prompt_doc, workflow_doc, processed_nodes, samplers, metadata, i>>
  /\ UNCHANGED <<recursion_limit, overflowed, extractor, reader>>

SpecTwice == Init /\ [][Next \/ Reparse]_vars

\* ------------------------------------------------------------ deep graphs
\* extract on a stack that holds at most MaxDepth frames of traverse_inner:
\* the walks of a sampler start at a node (2) whose first producer (3) leads
\* on to a node with a model and a text (4) and whose second producer (5)
\* holds a model and a text itself
DeepInputs ==
  {<<PromptDoc(<<Item("1", SamplerNode(Link(2), Link(2), Link(2))),
                 Item("2", DictNode("Switch", ("x" :> Link(3)))),
                 Item("3", DictNode("Reroute", ("x" :> Link(4)))),
                 Item("4", DictNode("Deep", ("ckpt_name" :> Str("modelB"))
                                              @@ ("text" :> Str("dog ")))),
                 Item("5", AllInOne)>>),
     Workflow(<<LinkRec(Num(3), Num(2), Str("CONDITIONING")),
                LinkRec(Num(5), Num(2), Str("CONDITIONING")),
                LinkRec(Num(4), Num(3), Str("CONDITIONING"))>>)>>}

InitDeep ==
  \E docs \in DeepInputs \cup PromptRichInputs \cup ScenarioInputs,
     limit \in 1..MaxDepth :
    InitWith(docs, limit)

SpecDeep == InitDeep /\ [][Next]_vars

\* ------------------------------------------------------------- bare walks
\* _traverse driven by a caller that sends any value after each yield, on
\* the context built from every list of at most MaxWalkLinks well-formed
\* records and a table that holds the ids 1 and 2 and not the id 3
PassNode == DictNode("Reroute", ("x" :> Link(1)))

WalkTables ==
  {<<Item("1", PassNode), Item("2", PassNode)>>}

WalkInputs ==
  {<<PromptDoc(t), Workflow(ls)>> : t \in WalkTables, ls \in SeqsUpTo(GoodRecs, MaxWalkLinks)}

InitWalk ==
  \E docs \in WalkInputs :
    /\ prompt_doc = docs[1]
    /\ workflow_doc = docs[2]
    /\ pc = "ready"
    /\ error = ""
    /\ prompt = [keys |-> MakePrompt(docs[1]).keys, val |-> MakePrompt(docs[1]).val]
    /\ links = MakeLinks(docs[2]).links
    /\ processed_nodes = {}
    /\ samplers = <<>>
    /\ metadata = <<>>
    /\ i = 1
    /\ sampler = NoSampler
    /\ wpc = "begin"
    /\ node_id = 0
    /\ visited = {}
    /\ ignore_links = {}
    /\ stack = <<>>
    /\ prompts = <<>>
    /\ entered = <<>>
    /\ yielded = <<>>
    /\ run = 1
    /\ first_result = NoResult
    /\ recursion_limit = RecursionLimit
    /\ overflowed = FALSE
    /\ extractor = NoExtractor
    /\ reader = NoReader

\* a caller calls self._traverse(start, ignored) and next() on it
StartWalk ==
  /\ pc = "ready"
  /\ \E start \in Ids, ignored \in {<<>>, IGNORE_LINK_TYPES_PROMPT} :
       StartTraverse(start, ignored)
  /\ pc' = "walk"
  /\ UNCHANGED <<error, prompt, links, processed_nodes, samplers, metadata, i,
                 sampler, prompts>>
  /\ UNCHANGED docvars

\* the caller sends the generator a value: None (next), True or False
Send ==
  /\ pc = "walk"
  /\ wpc = "yield"
  /\ \E recurse \in {"None", "True", "False"} : Resume(recurse)
  /\ UNCHANGED <<node_id, visited, ignore_links, entered, yielded>>
  /\ UNCHANGED <<pc, error, prompt, links, processed_nodes, samplers, metadata, i,
                 sampler, prompts>>
  /\ UNCHANGED docvars

\* the generator is exhausted: StopIteration reaches the caller, the
\* generator and its locals are gone
EndWalk ==
  /\ pc = "walk"
  /\ wpc = "done"
  /\ pc' = "ready"
  /\ wpc' = "begin"
  /\ node_id' = 0
  /\ visited' = {}
  /\ ignore_links' = {}
  /\ stack' = <<>>
  /\ entered' = <<>>
  /\ yielded' = <<>>
  /\ UNCHANGED <<error, prompt, links, processed_nodes, samplers, metadata, i,
                 sampler, prompts>>
  /\ UNCHANGED docvars

NextWalk ==
  \/ StartWalk
  \/ WalkEnter
  \/ WalkLoop
  \/ Send
  \/ EndWalk

SpecWalk == InitWalk /\ [][NextWalk]_vars

\* the generator runs whenever it is resumed and the caller keeps iterating
FairWalk == SpecWalk /\ WF_vars(NextWalk)

\* ================================================================== claims
SeqIds(ps) == {ps[x].prompt_id : x \in 1..Len(ps)}

\* the node ids a Sampler record consumed: its own, its Model's, its Prompts'
ConsumedBy(sm) ==
  {sm.sampler_id} \cup (IF sm.model.present THEN {sm.model.model_id} ELSE {})
    \cup SeqIds(sm.prompts) \cup SeqIds(sm.negative_prompts)

ConsumedIds == UNION {ConsumedBy(samplers[x]) : x \in 1..Len(samplers)}

MetadataIds == {k[2] : k \in DOMAIN metadata}

\* both documents passed construction
Constructed == MakePrompt(prompt_doc).err = "" /\ MakeLinks(workflow_doc).err = ""

\* C1: after extract returns, no node id is both consumed by a sampler (its
\* own id, its Model's id, the id of one of its positive or negative Prompts)
\* and the node id of a key of the returned Metadata map.
C1_Exclusive ==
  pc = "done" => ConsumedIds \cap MetadataIds = {}

\* C1 witness: extract returned a sampler with a model and a prompt, and a
\* metadata entry for a node left over
C1_Witness ==
  /\ pc = "done"
  /\ metadata # <<>>
  /\ \E x \in 1..Len(samplers) :
       /\ samplers[x].model.present
       /\ samplers[x].prompts # <<>>
       /\ samplers[x].model.model_id # samplers[x].sampler_id

\* C2 (as claimed): once extract has ended on a constructed table, every node
\* whose inputs hold sampler_name, steps and cfg has exactly one Sampler record
\* in the output, whatever its other inputs are, and no Metadata entry.
C2_EverySamplerNode ==
  (pc \in {"done", "raised"} /\ Constructed) =>
    \A id \in DOMAIN prompt.val :
      IsSamplerNode(prompt.val[id]) =>
        /\ Result.returned
        /\ Cardinality({x \in 1..Len(Result.samplers) :
                          Result.samplers[x].sampler_id = id}) = 1
        /\ id \notin MetadataIds

\* C5 (as claimed): on documents that pass construction extract returns a
\* result; no exception leaves it, whatever the shape of the nodes.
C5_NoEscape ==
  Constructed => pc # "raised"

\* the documents are structurally invalid: the prompt is no mapping or has a
\* key int() refuses; the workflow is no mapping, has no links, links that
\* cannot be iterated, a record that cannot be unpacked into six elements, or
\* a producer or consumer id int() refuses
Coercible(v) ==
  \/ v.kind = "num"
  \/ v.kind = "str" /\ v.s \in DOMAIN StrInt

BadRecord(rec) ==
  \/ ~rec.iterable
  \/ rec.arity # 6
  \/ ~Coercible(rec.output_id)
  \/ ~Coercible(rec.input_id)

Malformed ==
  \/ prompt_doc.kind # "dict"
  \/ \E x \in 1..Len(prompt_doc.items) : ~Coercible(Str(prompt_doc.items[x].key))
  \/ workflow_doc.kind # "dict"
  \/ ~workflow_doc.has_links
  \/ workflow_doc.lkind # "list"
  \/ \E x \in 1..Len(workflow_doc.links) : BadRecord(workflow_doc.links[x])

\* C6 (as claimed): on structurally invalid documents the call fails with
\* ParserError and with no other exception, and returns nothing.
C6_MalformedIsParserError ==
  (Malformed /\ pc # "new") => (pc = "raised" /\ error = "ParserError")

\* no id was entered twice by the walk
NoReentry ==
  \A x, y \in 1..Len(entered) : x # y => entered[x].node_id # entered[y].node_id

\* C3: a traversal started at any node id, on any graph (cycles and self-loops
\* included) and under any values the caller sends, enters each node id at
\* most once and terminates.
C3_TraverseTerminates ==
  /\ [](Walking => NoReentry)
  /\ (pc = "walk") ~> (wpc = "done")

\* C3 witness: a walk on a cycle has ended: a frame found its producer
\* already visited
C3_Witness ==
  /\ pc = "walk"
  /\ wpc = "done"
  /\ Len(entered) >= 2
  /\ \E x, y \in 1..Len(entered) :
       /\ x < y
       /\ TypesOf(links, entered[y].node_id, entered[x].node_id) \ ignore_links # {}

\* a prompt search is under way: _get_prompts has called _traverse with CLIP
\* ignored
PromptSearch == pc \in {"positive", "negative"} /\ wpc # "begin"

\* the producers one pair away from a node of S, over the pairs that carry a
\* label other than CLIP
NonClipProducers(S) ==
  {p \in {l[1] : l \in UNION {Range(links[c]) : c \in S \cap DOMAIN links}} :
     \E c \in S : TypesOf(links, c, p) \ {"CLIP"} # {}}

\* the ids reachable from S over such pairs
RECURSIVE NonClipReach(_)
NonClipReach(S) ==
  IF NonClipProducers(S) \subseteq S THEN S ELSE NonClipReach(S \cup NonClipProducers(S))

\* C4: during a prompt search no node is visited that is reachable from the
\* start node only through pairs labelled exactly {CLIP}: every node visited
\* after the start node was entered across a pair with a label other than
\* CLIP, and every visited node is reachable from the start over such pairs.
C4_ClipIgnored ==
  (PromptSearch /\ entered # <<>>) =>
    /\ \A x \in 2..Len(entered) :
         /\ entered[x].from \in visited
         /\ entered[x].types \ {"CLIP"} # {}
    /\ visited \subseteq NonClipReach({entered[1].node_id})

\* C4 witness: a prompt search has ended that visited a consumer whose
\* producer, across a pair labelled exactly {CLIP}, it never visited
C4_Witness ==
  /\ PromptSearch
  /\ wpc = "done"
  /\ \E c \in visited, p \in Ids \ visited : TypesOf(links, c, p) = {"CLIP"}

\* the literal inputs of a node with a mapping of inputs
LiteralInputs(node) ==
  [k \in {x \in DOMAIN node.inputs : node.inputs[x].kind \notin {"list", "list0"}} |->
     node.inputs[k]]

HasLiterals(node) ==
  /\ node.isdict
  /\ node.ikind = "dict"
  /\ DOMAIN LiteralInputs(node) # {}

\* the entries of the Metadata map for the node id
EntriesOf(id) == {k \in DOMAIN metadata : k[2] = id}

\* C7 (as claimed): the returned Metadata map holds, for every node that is not
\* in ProcessedSet and has a literal input, exactly one entry, keyed
\* (class_type, id), whose value is the node's literal inputs, and no entry
\* for any other node.
C7_AsClaimed ==
  pc = "done" =>
    \A id \in DOMAIN prompt.val :
      IF id \notin processed_nodes /\ HasLiterals(prompt.val[id])
      THEN /\ Cardinality(EntriesOf(id)) = 1
           /\ \A k \in EntriesOf(id) : metadata[k] = LiteralInputs(prompt.val[id])
      ELSE EntriesOf(id) = {}

\* C7 (amended): the returned Metadata map holds, for every node that is not
\* in ProcessedSet, has a literal input and has a class_type, exactly the
\* entry (class_type, id) with the node's literal inputs as its value, and no
\* entry for any other node nor for an id that is not in the table.
C7_Metadata ==
  pc = "done" =>
    /\ \A id \in DOMAIN prompt.val :
         IF /\ id \notin processed_nodes
            /\ HasLiterals(prompt.val[id])
            /\ prompt.val[id].has_class
         THEN /\ EntriesOf(id) = {<<prompt.val[id].class_type, id>>}
              /\ metadata[<<prompt.val[id].class_type, id>>] = LiteralInputs(prompt.val[id])
         ELSE EntriesOf(id) = {}
    /\ MetadataIds \subseteq DOMAIN prompt.val

\* C7 witness: extract returned the entry (Note, 5) -> {foo: bar} for the
\* isolated note beside a sampler and its model
C7_Witness ==
  /\ pc = "done"
  /\ samplers # <<>>
  /\ <<"Note", 5>> \in DOMAIN metadata
  /\ metadata[<<"Note", 5>>] = ("foo" :> Str("bar"))
  /\ EntriesOf(1) = {}

\* C8: the second call of extract on the same pair of documents ends as the
\* first did: the same Sampler sequence and the same Metadata map, or the
\* same exception.
C8_Deterministic ==
  (run = 2 /\ pc \in {"done", "raised"}) => Result = first_result

\* C8 witness: the second call has returned samplers and metadata
C8_Witness ==
  /\ run = 2
  /\ pc = "done"
  /\ samplers # <<>>
  /\ metadata # <<>>
  /\ \E x \in 1..Len(samplers) : samplers[x].prompts # <<>>

\* the position of the first key of the prompt document that int() maps to id
FirstPos(id) ==
  CHOOSE x \in 1..Len(prompt_doc.items) :
    /\ StrInt[prompt_doc.items[x].key] = id
    /\ \A y \in 1..(x - 1) : StrInt[prompt_doc.items[y].key] # id

\* the ids of the nodes of the table whose inputs hold sampler_name, steps, cfg
Qualifying ==
  {id \in DOMAIN prompt.val :
     /\ prompt.val[id].isdict
     /\ prompt.val[id].ikind = "dict"
     /\ {"sampler_name", "steps", "cfg"} \subseteq DOMAIN prompt.val[id].inputs}

\* C9: the Sampler sequence extract returns holds one record for each
\* qualifying node and no other, in the order of the keys of the node table,
\* whatever the links are and whichever nodes earlier samplers marked
\* processed.
C9_SamplerOrder ==
  pc = "done" =>
    /\ Len(samplers) = Cardinality(Qualifying)
    /\ \A x \in 1..Len(samplers) : samplers[x].sampler_id \in Qualifying
    /\ \A x, y \in 1..Len(samplers) :
         x < y => FirstPos(samplers[x].sampler_id) < FirstPos(samplers[y].sampler_id)

\* C9 witness: extract returned two samplers, the later of them a node an
\* earlier sampler had consumed as a prompt
C9_Witness ==
  /\ pc = "done"
  /\ \E x, y \in 1..Len(samplers) :
       /\ x < y
       /\ samplers[y].sampler_id \in SeqIds(samplers[x].prompts)
                                       \cup SeqIds(samplers[x].negative_prompts)

\* the depth-first order in which a walk that ignores no link type and is
\* never told to stop enters node ids: a node, then each of its producers not
\* entered before, in the order of the node's links
RECURSIVE DfsNode(_, _), DfsItems(_, _)
DfsNode(n, acc) ==
  DfsItems(IF n \in DOMAIN links THEN links[n] ELSE <<>>, Append(acc, n))

DfsItems(its, acc) ==
  IF its = <<>> THEN acc
  ELSE DfsItems(Tail(its),
                IF its[1][1] \in Range(acc) THEN acc ELSE DfsNode(its[1][1], acc))

\* the node id is in the table and its inputs hold the key ckpt_name
HasCkpt(id) ==
  /\ id \in DOMAIN prompt.val
  /\ prompt.val[id].isdict
  /\ prompt.val[id].ikind = "dict"
  /\ "ckpt_name" \in DOMAIN prompt.val[id].inputs

\* the model input of the sampler being filled is a link reference
ModelIsLink ==
  /\ "model" \in DOMAIN prompt.val[sampler.sampler_id].inputs
  /\ prompt.val[sampler.sampler_id].inputs["model"].kind = "list"

ModelOrder == DfsNode(prompt.val[sampler.sampler_id].inputs["model"].n, <<>>)

ModelHits == {x \in 1..Len(ModelOrder) : HasCkpt(ModelOrder[x])}

FirstHit == CHOOSE x \in ModelHits : \A y \in ModelHits : x <= y

EnteredIds == [x \in 1..Len(entered) |-> entered[x].node_id]

\* _get_model has returned to _try_get_sampler
ModelResolved == pc = "positive" /\ wpc = "begin"

ModelIsFirstCkpt ==
  IF ModelHits = {}
  THEN /\ sampler.model = NoModel
       /\ EnteredIds = ModelOrder
  ELSE /\ sampler.model.present
       /\ sampler.model.model_id = ModelOrder[FirstHit]
       /\ sampler.model.name = prompt.val[ModelOrder[FirstHit]].inputs["ckpt_name"]
       /\ sampler.model.model_id \in processed_nodes
       /\ EnteredIds = SubSeq(ModelOrder, 1, FirstHit)

\* what a step of the model resolution adds to ProcessedSet: the id of the
\* Model it returns, and nothing when it returns none or goes on
ModelStepAdds ==
  IF pc' = "positive" /\ sampler'.model.present THEN {sampler'.model.model_id} ELSE {}

\* C10: when the sampler's model input is a link reference, the Model is the
\* first node, in the depth-first order of a walk from the producer with no
\* link type ignored, whose inputs hold ckpt_name; the walk enters no node
\* after it and the node is in ProcessedSet; when no node has ckpt_name the
\* model is absent; and the resolution adds nothing to ProcessedSet but the
\* id of the Model it returns.
C10_FirstModel ==
  /\ []((ModelResolved /\ ModelIsLink) => ModelIsFirstCkpt)
  /\ [][pc = "model" => processed_nodes' = processed_nodes \cup ModelStepAdds]_vars

\* C10 witness: the model was found at the second node the walk entered
C10_Witness ==
  /\ ModelResolved
  /\ ModelIsLink
  /\ sampler.model.present
  /\ Len(entered) = 2
  /\ Len(ModelOrder) > 2

\* the Prompt a visited node contributes for a key: one, when its inputs hold
\* the key with a literal string, with the node's id and the trimmed text
PromptFor(id, key) ==
  LET node == prompt.val[id]
  IN  IF /\ node.isdict
         /\ node.ikind = "dict"
         /\ key \in DOMAIN node.inputs
         /\ node.inputs[key].kind = "str"
      THEN <<[value |-> StrStrip(node.inputs[key].s), prompt_id |-> id]>>
      ELSE <<>>

\* the Prompts of the nodes ids, in that order, the keys first and second
RECURSIVE PromptsOf(_, _, _)
PromptsOf(ids, first, second) ==
  IF ids = <<>> THEN <<>>
  ELSE PromptFor(Head(ids), first) \o PromptFor(Head(ids), second)
         \o PromptsOf(Tail(ids), first, second)

\* the nodes the walk has delivered and _get_prompts has looked at
Handled == IF wpc = "yield" THEN SubSeq(yielded, 1, Len(yielded) - 1) ELSE yielded

\* C11: in a positive (negative) prompt walk every visited node contributes one
\* Prompt for each of the keys text, positive (text, negative) whose value is
\* a literal string, with the node's id and the trimmed text, in the order the
\* walk visits the nodes; the sequence is what the Sampler gets, and it is
\* empty when no visited node has such a key.
C11_PromptsCollected ==
  /\ (pc = "positive" /\ wpc # "begin") => prompts = PromptsOf(Handled, "text", "positive")
  /\ (pc = "negative" /\ wpc # "begin") => prompts = PromptsOf(Handled, "text", "negative")
  /\ (pc = "negative" /\ wpc = "begin") =>
       sampler.prompts = PromptsOf(yielded, "text", "positive")
  /\ pc = "return" => sampler.negative_prompts = PromptsOf(yielded, "text", "negative")

\* C11 witness: a negative walk has ended with prompts of two nodes, two of
\* them of one node, after a positive walk that did the same
C11_Witness ==
  /\ pc = "return"
  /\ Len(sampler.prompts) = 3
  /\ Len(sampler.negative_prompts) = 3
  /\ sampler.negative_prompts[2].prompt_id = sampler.negative_prompts[3].prompt_id
  /\ sampler.negative_prompts[1].prompt_id # sampler.negative_prompts[2].prompt_id
  /\ sampler.prompts[3].value = "dog"

\* C12 (as claimed): the first item the caller receives from a walk carries
\* start_id, whether or not the table holds start_id, before any producer of
\* start_id is delivered.
C12_AsClaimed ==
  (pc = "walk" /\ yielded # <<>>) => yielded[1] = entered[1].node_id

\* C12 (amended): a walk enters start_id first, whether or not the table
\* holds it; when the table holds start_id the first item the caller
\* receives carries start_id, before any producer is entered; when it does
\* not, no item is delivered for start_id and the caller receives only ids
\* the table holds.
C12_StartFirst ==
  (pc = "walk" /\ entered # <<>>) =>
    /\ entered[1].from = 0
    /\ entered[1].node_id \in visited
    /\ IF entered[1].node_id \in DOMAIN prompt.val
       THEN /\ yielded # <<>>
            /\ yielded[1] = entered[1].node_id
       ELSE \A x \in 1..Len(yielded) :
              /\ yielded[x] # entered[1].node_id
              /\ yielded[x] \in DOMAIN prompt.val

\* C12 witness: a walk from an id the table does not hold has ended after
\* delivering a producer
C12_Witness ==
  /\ pc = "walk"
  /\ wpc = "done"
  /\ entered[1].node_id \notin DOMAIN prompt.val
  /\ yielded # <<>>

\* the node id is in the table and contributes a Prompt to the prompt walk
\* under way
Contributes(id) ==
  /\ id \in DOMAIN prompt.val
  /\ PromptFor(id, "text") \o PromptFor(id, IF pc = "positive" THEN "positive" ELSE "negative")
       # <<>>

\* the producers the walk is to enter from the nodes of S that contribute no
\* Prompt: those one pair with a label other than CLIP away
ContinueProducers(S) ==
  {p \in UNION {{l[1] : l \in Range(links[c])} : c \in S \cap DOMAIN links} :
     \E c \in S : ~Contributes(c) /\ TypesOf(links, c, p) \ {"CLIP"} # {}}

RECURSIVE ContinueReach(_)
ContinueReach(S) ==
  IF ContinueProducers(S) \subseteq S THEN S ELSE ContinueReach(S \cup ContinueProducers(S))

\* C13: in a prompt walk a visited node that has contributed a Prompt is in
\* ProcessedSet and the walk enters none of its producers from it; a visited
\* node that contributed none is not added to ProcessedSet by the walk (the
\* set holds the consumed ids and nothing else) and the walk goes on to its
\* eligible producers: at its end the walk has visited exactly the ids
\* reachable from the start through nodes that contributed nothing.
C13_StopThisBranch ==
  PromptSearch =>
    /\ \A x \in 1..Len(Handled) : Contributes(Handled[x]) => Handled[x] \in processed_nodes
    /\ \A x \in 2..Len(entered) : ~Contributes(entered[x].from)
    /\ processed_nodes = ConsumedIds \cup ConsumedBy(sampler) \cup SeqIds(prompts)
    /\ (wpc = "done" /\ entered # <<>>) => visited = ContinueReach({entered[1].node_id})

\* C13 witness: a prompt walk has ended that went on from a node without a
\* Prompt to two producers and did not enter the eligible producer of one
\* that contributed
C13_Witness ==
  /\ PromptSearch
  /\ wpc = "done"
  /\ Len(entered) >= 3
  /\ \E n \in visited, q \in DOMAIN prompt.val \ visited :
       Contributes(n) /\ TypesOf(links, n, q) \ {"CLIP"} # {}
  /\ \E n \in visited : n \in DOMAIN prompt.val /\ ~Contributes(n) /\ n \notin processed_nodes

\* the types of the raw link records from producer p to consumer c
RawTypes(c, p) ==
  {rec.link_type.s : rec \in {r \in Range(workflow_doc.links) :
                                 PyInt(r.input_id).val = c /\ PyInt(r.output_id).val = p}}

RawIds ==
  UNION {{PyInt(r.input_id).val, PyInt(r.output_id).val} : r \in Range(workflow_doc.links)}

\* the adjacency mapping holds one entry for each ordered pair of the raw
\* records, with the union of their types
LabelsMerged ==
  /\ \A c \in DOMAIN links :
       \A x, y \in 1..Len(links[c]) : x # y => links[c][x][1] # links[c][y][1]
  /\ \A c \in RawIds \cup DOMAIN links, p \in RawIds :
       TypesOf(links, c, p) = RawTypes(c, p)

\* the items of its links a frame of the walk has taken
Taken(f) ==
  IF f.started /\ f.node_id \in DOMAIN links
  THEN SubSeq(links[f.node_id], 1, Len(links[f.node_id]) - Len(f.todo))
  ELSE <<>>

\* the label set is not a subset of the ignored link types
Eligible(types) == ~(types \subseteq ignore_links)

\* C14: duplicate raw links of one ordered (consumer, producer) pair are one
\* adjacency entry labelled with the union of their types; a walk that goes
\* on past node n enters producer p if and only if p is not visited at that
\* moment and the label set of (n, p) is not a subset of the ignored link
\* types: a producer is entered only unvisited and across an eligible pair,
\* and no eligible producer a frame has taken is left unvisited.
C14_EdgeFilter ==
  /\ pc \notin {"new", "raised"} => LabelsMerged
  /\ (Walking /\ wpc = "enter" /\ stack # <<>>) =>
       /\ node_id \notin visited
       /\ Eligible(TypesOf(links, Top.node_id, node_id))
  /\ (Walking /\ wpc \in {"enter", "yield", "loop"}) =>
       \A d \in 1..Len(stack) :
         \A x \in 1..Len(Taken(stack[d])) :
           Eligible(Taken(stack[d])[x][2]) =>
             \/ Taken(stack[d])[x][1] \in visited
             \/ wpc = "enter" /\ d = Len(stack) /\ Taken(stack[d])[x][1] = node_id

\* C14 witness: a prompt walk has entered a producer across a pair that two
\* raw records label CLIP and CONDITIONING
C14_Witness ==
  /\ PromptSearch
  /\ wpc = "loop"
  /\ Len(workflow_doc.links) = 2
  /\ \E x \in 2..Len(entered) : entered[x].types = {"CLIP", "CONDITIONING"}

\* C15: ProcessedSet only grows during a call of extract: no step of sampler
\* detection, of a model walk or of a prompt walk removes an id from it, and
\* no step of pass 2 adds to it or removes from it.
C15_ProcessedGrows ==
  /\ [][processed_nodes \subseteq processed_nodes']_vars
  /\ [][pc = "pass2" => processed_nodes' = processed_nodes]_vars

\* C15 witness: pass 2 is under way after a pass 1 that processed a sampler,
\* its model and a prompt
C15_Witness ==
  /\ pc = "pass2"
  /\ i > 1
  /\ Cardinality(processed_nodes) >= 3
  /\ metadata # <<>>

\* C16 (as claimed): after construction no walk and neither pass changes the
\* node table or the adjacency mapping: its consumer keys, the producers
\* under each consumer and every label set are as the constructor left them.
C16_GraphReadOnly ==
  pc \notin {"new", "raised"} =>
    /\ prompt.keys = MakePrompt(prompt_doc).keys
    /\ prompt.val = MakePrompt(prompt_doc).val
    /\ DOMAIN links = DOMAIN MakeLinks(workflow_doc).links
    /\ links = MakeLinks(workflow_doc).links

\* the order in which a prompt walk enters node ids, from the graph, the
\* start and the nodes' contents alone: a node, then, unless it contributes a
\* Prompt, each of its producers not entered before across a pair with a
\* label other than CLIP, in the order of the node's links
RECURSIVE PromptWalkNode(_, _), PromptWalkItems(_, _)
PromptWalkNode(n, acc) ==
  IF Contributes(n) THEN Append(acc, n)
  ELSE PromptWalkItems(IF n \in DOMAIN links THEN links[n] ELSE <<>>, Append(acc, n))

PromptWalkItems(its, acc) ==
  IF its = <<>> THEN acc
  ELSE PromptWalkItems(Tail(its),
                       IF its[1][1] \in Range(acc) \/ its[1][2] \subseteq {"CLIP"}
                       THEN acc ELSE PromptWalkNode(its[1][1], acc))

\* the start of the walk under way, from the sampler's input
WalkStart ==
  PyIntOfFirst(prompt.val[sampler.sampler_id].inputs[pc]).val

\* C17: every call of the walk starts with an empty visited set of its own,
\* and the nodes it enters are those the graph, the start id, the ignored
\* link types and the caller's signals determine, whatever earlier walks of
\* the session visited: a prompt walk that has ended entered the ids of the
\* order computed from the graph alone, a model walk that found nothing the
\* whole depth-first order.
C17_WalksIndependent ==
  /\ (Walking /\ wpc = "enter" /\ stack = <<>>) => (visited = {} /\ entered = <<>>)
  /\ (PromptSearch /\ wpc = "done") => EnteredIds = PromptWalkNode(WalkStart, <<>>)
  /\ (pc = "model" /\ wpc = "done") => EnteredIds = DfsNode(WalkStart, <<>>)
  /\ (Walking /\ wpc = "done") => Range(EnteredIds) = visited

\* C17 witness: the negative-prompt walk of a sampler has ended after
\* visiting again nodes its positive-prompt walk visited and consumed, and
\* the node its model walk started at
C17_Witness ==
  /\ pc = "negative"
  /\ wpc = "done"
  /\ SeqIds(sampler.prompts) # {}
  /\ SeqIds(sampler.prompts) \subseteq visited
  /\ "model" \in DOMAIN prompt.val[sampler.sampler_id].inputs
  /\ WalkStart = PyIntOfFirst(prompt.val[sampler.sampler_id].inputs["model"]).val
  /\ Len(entered) >= 3

\* C18: when a walk needs more frames than the stack holds, the
\* RecursionError ends the branch and goes no further: the walk never holds
\* more frames than fit, no exception leaves the walk or extract, and extract
\* returns its result.
C18_OverflowSwallowed ==
  /\ pc # "raised"
  /\ error = ""
  /\ Walking => Len(stack) <= recursion_limit
  /\ (overflowed /\ pc = "done") => Result.returned

\* C18 witness: extract has returned a sampler with the model and the prompt
\* of the second producer, after a walk overflowed below the first
C18_Witness ==
  /\ pc = "done"
  /\ overflowed
  /\ samplers # <<>>
  /\ samplers[1].model.present
  /\ samplers[1].model.model_id = 5
  /\ SeqIds(samplers[1].prompts) = {5}

\* ------------------------------------------------------------ LSBExtractor
\* _steganographic_alpha_channel.py: the reader of the lowest bit of the
\* alpha channel, column by column.  One step is one test of a loop
\* condition or one call of _extract_next_bit.
ByteBits == 8      \* get_one_byte: while self.bits < 8
IntBytes == 4      \* read_32bit_integer: self.get_next_n_bytes(4)

\* the alpha channels an image of a size may hold: all odd, all even, or
\* odd where row + col is odd
Patterns == {"ones", "zeros", "mixed"}

\* self.data[row][col][self.dim - 1]
Alpha(data, row, col) ==
  CASE data = "ones" -> 255
    [] data = "zeros" -> 254
    [] OTHER -> 254 + ((row + col) % 2)

\* LSBExtractor(img)
NewExtractor(data, width, height) ==
  [data |-> data, width |-> width, height |-> height, dim |-> 4, bits |-> 0,
   byte |-> 0, row |-> 0, col |-> 0]

\* the bits of the alpha channel that no call has read yet
Unread(e) ==
  IF e.row < e.height /\ e.col < e.width
    THEN (e.width - e.col) * e.height - e.row
    ELSE 0

\* int.from_bytes(bytes_list, byteorder="big") of 4 bytes: the integer
\* 65536 * hi + lo, kept as its two halves
FromBytes(bytes_list) ==
  [hi |-> 256 * bytes_list[1] + bytes_list[2],
   lo |-> 256 * bytes_list[3] + bytes_list[4]]

\* an image is opened and an extractor made for it; the documents of the
\* ComfyUI parser play no part
InitLsb ==
  /\ prompt_doc = PromptDoc(<<>>)
  /\ workflow_doc = Workflow(<<>>)
  /\ pc = "new"
  /\ error = ""
  /\ prompt = EmptyPrompt
  /\ links = <<>>
  /\ processed_nodes = {}
  /\ samplers = <<>>
  /\ metadata = <<>>
  /\ i = 1
  /\ sampler = NoSampler
  /\ wpc = "begin"
  /\ node_id = 0
  /\ visited = {}
  /\ ignore_links = {}
  /\ stack = <<>>
  /\ prompts = <<>>
  /\ entered = <<>>
  /\ yielded = <<>>
  /\ run = 1
  /\ first_result = NoResult
  /\ recursion_limit = RecursionLimit
  /\ overflowed = FALSE
  /\ \E data \in Patterns, width \in 1..MaxWidth, height \in 1..MaxHeight :
       extractor = NewExtractor(data, width, height)
  /\ reader = NoReader

\* a caller calls get_one_byte()
CallGetOneByte ==
  /\ reader.pc = "idle"
  /\ reader' = [NoReader EXCEPT !.pc = "while", !.op = "get_one_byte",
                                !.unread = Unread(extractor)]
  /\ UNCHANGED extractor
  /\ UNCHANGED comfyvars

\* a caller calls get_next_n_bytes(n): bytes_list = bytearray()
CallGetNextNBytes ==
  /\ reader.pc = "idle"
  /\ \E n \in 0..MaxBytes :
       reader' = [NoReader EXCEPT !.pc = "for", !.op = "get_next_n_bytes", !.n = n,
                                  !.unread = Unread(extractor)]
  /\ UNCHANGED extractor
  /\ UNCHANGED comfyvars

\* a caller calls read_32bit_integer(): self.get_next_n_bytes(4)
CallRead32bitInteger ==
  /\ reader.pc = "idle"
  /\ reader' = [NoReader EXCEPT !.pc = "for", !.op = "read_32bit_integer",
                                !.n = IntBytes, !.unread = Unread(extractor)]
  /\ UNCHANGED extractor
  /\ UNCHANGED comfyvars

\* get_next_n_bytes: for _ in range(n) takes its next value and calls
\* get_one_byte, or is exhausted and bytes_list is returned;
\* read_32bit_integer then returns the integer of 4 bytes, None of fewer
ForNext ==
  /\ reader.pc = "for"
  /\ IF reader.k < reader.n
       THEN reader' = [reader EXCEPT !.pc = "while"]
       ELSE IF reader.op = "read_32bit_integer"
         THEN IF Len(reader.bytes_list) = IntBytes
           THEN reader' = [reader EXCEPT !.pc = "returned",
                                         !.ret = <<FromBytes(reader.bytes_list)>>]
           ELSE reader' = [reader EXCEPT !.pc = "returned", !.none = TRUE]
         ELSE reader' = [reader EXCEPT !.pc = "returned", !.ret = reader.bytes_list]
  /\ UNCHANGED extractor
  /\ UNCHANGED comfyvars

\* get_one_byte: the test of while self.bits < 8.  Once it fails,
\* byte = bytearray([self.byte]), the counters are reset and byte is
\* returned; get_next_n_bytes appends it (a bytearray of one byte is true)
WhileBits ==
  /\ reader.pc = "while"
  /\ IF extractor.bits < ByteBits
       THEN /\ reader' = [reader EXCEPT !.pc = "extract"]
            /\ UNCHANGED extractor
       ELSE /\ extractor' = [extractor EXCEPT !.bits = 0, !.byte = 0]
            /\ IF reader.op = "get_one_byte"
                 THEN reader' = [reader EXCEPT !.pc = "returned",
                                               !.ret = <<extractor.byte>>]
                 ELSE reader' = [reader EXCEPT !.pc = "for", !.k = @ + 1,
                                   !.bytes_list = Append(@, extractor.byte)]
  /\ UNCHANGED comfyvars

\* _extract_next_bit: inside the image the lowest bit of the alpha channel
\* is shifted into self.byte and the position moves down, then right;
\* outside it nothing is done
ExtractNextBit ==
  /\ reader.pc = "extract"
  /\ IF extractor.row < extractor.height /\ extractor.col < extractor.width
       THEN LET bit == Alpha(extractor.data, extractor.row, extractor.col) % 2
                row == extractor.row + 1
            IN  extractor' = [extractor EXCEPT
                  !.bits = @ + 1,
                  !.byte = 2 * @ + bit,
                  !.row = IF row = extractor.height THEN 0 ELSE row,
                  !.col = IF row = extractor.height THEN @ + 1 ELSE @]
       ELSE UNCHANGED extractor
  /\ reader' = [reader EXCEPT !.pc = "while"]
  /\ UNCHANGED comfyvars

\* the caller has the result and may call again
Returned ==
  /\ reader.pc = "returned"
  /\ reader' = NoReader
  /\ UNCHANGED extractor
  /\ UNCHANGED comfyvars

NextLsb ==
  \/ CallGetOneByte
  \/ CallGetNextNBytes
  \/ CallRead32bitInteger
  \/ ForNext
  \/ WhileBits
  \/ ExtractNextBit
  \/ Returned

SpecLsb == InitLsb /\ [][NextLsb]_vars

\* the interpreter keeps running the call it is in
FairLsb == SpecLsb /\ WF_vars(NextLsb)

\* C19: get_one_byte and get_next_n_bytes(n) return after finitely many
\* steps for any width, height and read position, also when fewer than 8
\* unread bits remain; get_next_n_bytes then returns fewer than n bytes and
\* read_32bit_integer returns None.
C19_ReadsReturn ==
  /\ (reader.pc # "idle") ~> (reader.pc = "returned")
  /\ [](reader.pc = "returned" /\ reader.unread < ByteBits * reader.n =>
          IF reader.op = "read_32bit_integer"
            THEN reader.none
            ELSE Len(reader.ret) < reader.n)

====
